---- MODULE Spec2Model ----
(***************************************************************************)
(* docker-vxrouter: the dual-keyed network-resource cache of               *)
(* docker/client/client.go, the address allocator of vxrIpam/driver.go and *)
(* the start and shutdown of the daemon in main.go.                        *)
(*                                                                         *)
(* Strings are modelled as sequences of naturals: "" is <<>>, an address   *)
(* "a" is <<a>>, a CIDR "a/l" is <<a, l>>; anything else is malformed.     *)
(* Addresses are AddrBits wide.                                            *)
(***************************************************************************)
EXTENDS Integers, Sequences, FiniteSets, TLC

\* ------------------------------------------------------------------ bounds
\* host bits of the subnets: a pool holds 2^PoolBits addresses
PoolBits == 2
\* width of an address in bits (32 for IPv4 in the program)
AddrBits == PoolBits + 1
\* number of concurrent callers (goroutines serving requests)
NumProcs == 2
\* longest IPAM configuration handed to the pool derivation
MaxCfg == 4

Procs == 1..NumProcs

RECURSIVE Pow2(_)
Pow2(n) == IF n = 0 THEN 1 ELSE 2 * Pow2(n - 1)

Addrs == 0..(Pow2(AddrBits) - 1)

\* ------------------------------------------------------- the docker runtime
\* The subnets used by the runtime's networks: the topmost subnet of the
\* address space ("P1") and the one below it ("P2").
PoolLen == AddrBits - PoolBits
PoolBase == Pow2(AddrBits) - Pow2(PoolBits)
P1 == <<PoolBase, PoolLen>>
P2 == <<PoolBase - Pow2(PoolBits), PoolLen>>
EmptyStr == <<>>

networkDriverName == "vxrNet"

\* The networks the runtime knows: driver and IPAM.Config (the Subnet field
\* of each entry, "" when the entry carries none).  n1 and n2 were created
\* with the same subnet (RequestPool accepts any pool), n3 has no subnet,
\* n4 belongs to another driver.
Runtime ==
    [ n1 |-> [Driver |-> "vxrNet", Config |-> <<EmptyStr, P1>>],
      n2 |-> [Driver |-> "vxrNet", Config |-> <<P1, P2>>],
      n3 |-> [Driver |-> "vxrNet", Config |-> <<EmptyStr>>],
      n4 |-> [Driver |-> "bridge", Config |-> <<P2>>] ]

NetIDs == DOMAIN Runtime
\* the order in which the runtime lists its networks
ListOrder == <<"n1", "n2", "n3", "n4">>

\* ids and pools handed to the lookups
IDArgs == {"n1", "n2", "n3"}
PoolArgs == {P1, P2, EmptyStr}

\* a nil *types.NetworkResource; records returned by inspect have obj >= 1,
\* obj standing for the identity (address) of the record
NilNR == [ID |-> "", Config |-> <<>>, obj |-> 0]

\* the result of c.dc.NetworkInspect for an existing network, allocated as
\* object number o
InspectResult(id, o) == [ID |-> id, Config |-> Runtime[id].Config, obj |-> o]

\* c.dc.NetworkList with the driver filter: the listed ids, in list order
RECURSIVE FilterDriver(_, _)
FilterDriver(s, drv) ==
    IF s = <<>> THEN <<>>
    ELSE IF Runtime[Head(s)].Driver = drv
         THEN <<Head(s)>> \o FilterDriver(Tail(s), drv)
         ELSE FilterDriver(Tail(s), drv)

NetworkList == FilterDriver(ListOrder, networkDriverName)

\* ------------------------------------------------------------- poolFromNR
\* first IPAM config entry with a non-empty subnet, else ("", error)
RECURSIVE FirstSubnet(_)
FirstSubnet(cfg) ==
    IF cfg = <<>> THEN [pool |-> EmptyStr, err |-> "pool not found"]
    ELSE IF Head(cfg) # EmptyStr THEN [pool |-> Head(cfg), err |-> "nil"]
    ELSE FirstSubnet(Tail(cfg))

\* the subnet of the first entry, empty or not
poolFromNRFirstEntry(nr) ==
    IF nr.Config = <<>> THEN [pool |-> EmptyStr, err |-> "pool not found"]
    ELSE [pool |-> Head(nr.Config), err |-> "nil"]

poolFromNR(nr) == FirstSubnet(nr.Config)

\* the IPAM configurations handed to the derivation: up to MaxCfg entries
\* with no subnet or one of two subnets
RECURSIVE ConfigsOfLen(_)
ConfigsOfLen(n) ==
    IF n = 0 THEN {<<>>}
    ELSE {<<x>> \o c : x \in {EmptyStr, P1, P2}, c \in ConfigsOfLen(n - 1)}

ConfigArgs == UNION {ConfigsOfLen(n) : n \in 0..MaxCfg}

\* ------------------------------------------------------------------- state
VARIABLES
    nrByID,      \* Client.nrByID: network id -> record
    nrByPool,    \* Client.nrByPool: subnet -> record
    readers,     \* nrCacheLock: the callers holding the shared lock
    writer,      \* nrCacheLock: the caller that has called Lock() (0: none)
    rtable,      \* the host routing table: a set of routes [Dst, Gw]
    attached,    \* networks the host has been attached to (ConnectHost)
    everRouted,  \* history: addresses that have ever had a single-host route
    routed0,     \* history: addresses single-host routed when the daemon started
    pc,          \* per caller: the statement it is at
    req,         \* per caller: the request being served
    fr,          \* per caller: the local variables of its frames
    resp,        \* per caller: what its last call returned
    gh,          \* per caller: history of the call being served
    run          \* main.Run: its goroutines, channels and protocol handler

vars == <<nrByID, nrByPool, readers, writer, rtable, attached, everRouted,
          routed0, pc, req, fr, resp, gh, run>>

NoReq == [op |-> "none", id |-> "", pool |-> EmptyStr,
          PoolID |-> EmptyStr, Address |-> EmptyStr, gateway |-> FALSE]

NilAddr == [IP |-> -1, Mask |-> -1]

NoFrame == [id |-> "", caller |-> "top", pool |-> EmptyStr, nl |-> <<>>,
            i |-> 0,
            nr |-> NilNR, key |-> EmptyStr, tnr |-> NilNR, terr |-> "nil",
            subnet |-> NilAddr, addr |-> NilAddr, routes |-> {},
            netID |-> "", gw |-> -1]

NoResp == [nr |-> NilNR, Address |-> EmptyStr, PoolID |-> EmptyStr,
           Pool |-> EmptyStr, err |-> "nil", panicked |-> FALSE]

NoHist == [called |-> FALSE, inspectFailed |-> FALSE, listFailed |-> FALSE,
           pre |-> NilNR, prev |-> NilNR, released |-> FALSE,
           steps |-> <<>>, visited |-> 0, wrote |-> FALSE]

\* m[k] = v on a Go map
MapPut(m, k, v) == [x \in (DOMAIN m) \cup {k} |-> IF x = k THEN v ELSE m[x]]

CacheVars == <<nrByID, nrByPool, readers, writer>>

\* the records some reference still points to
LiveRecs ==
    {nrByID[k] : k \in DOMAIN nrByID}
      \cup {nrByPool[k] : k \in DOMAIN nrByPool}
      \cup {fr[q].nr : q \in Procs} \cup {fr[q].tnr : q \in Procs}
      \cup {resp[q].nr : q \in Procs} \cup {gh[q].pre : q \in Procs}
      \cup {gh[q].prev : q \in Procs}

\* NetworkInspect's result is a fresh record: its identity (obj, counted per
\* network) is that of no record of the network still referenced
FreshObj(id) ==
    LET used == {r.obj : r \in {x \in LiveRecs : x.ID = id}} IN
      CHOOSE o \in 1..(Cardinality(used) + 1) :
          /\ o \notin used
          /\ \A o2 \in 1..(o - 1) : o2 \in used

HostVars == <<rtable, attached, everRouted, routed0>>

\* ------------------------------------------------- history of the lookups
\* a lookup of network n that missed the ID index and has not yet finished
\* caching what it inspected
MissInFlight(q, n) ==
    /\ fr[q].id = n
    /\ pc[q] \in {"id_inspect", "cache_lock", "cache_wait", "cache_id",
                  "cache_pool"}

\* the record of n is cached and no lookup is about to replace it
Settled(n) ==
    /\ n \in DOMAIN nrByID
    /\ \A q \in Procs : ~MissInFlight(q, n)

DerivedPool(n) == poolFromNR(InspectResult(n, 0))

\* the subnet is cached and so is every network deriving it
PoolSettled(pool) ==
    /\ pool \in DOMAIN nrByPool
    /\ \A n \in NetIDs :
          (DerivedPool(n).err = "nil" /\ DerivedPool(n).pool = pool)
              => Settled(n)

\* the record of network n that the caller's own previous lookup returned
ReturnedByID(p, n) ==
    IF resp[p].nr.ID = n THEN resp[p].nr ELSE NilNR

\* the record with derived subnet pool that the caller's own previous lookup
\* returned
ReturnedByPool(p, pool) ==
    IF resp[p].nr # NilNR
       /\ poolFromNR(resp[p].nr) = [pool |-> pool, err |-> "nil"]
    THEN resp[p].nr ELSE NilNR

\* the history h of a lookup is kept when the lookup was called directly,
\* not when RequestAddress resolves its network through it
Note(p, h) ==
    gh' = [gh EXCEPT ![p] = IF req[p].op = "RequestAddress" THEN @ ELSE h]

\* ------------------------------------------------ returning from a lookup
\* return (nr, err) from the top-level call
ReturnTop(p, nr, err) ==
    /\ pc' = [pc EXCEPT ![p] = "idle"]
    /\ resp' = [resp EXCEPT ![p] = [NoResp EXCEPT !.nr = nr, !.err = err]]
    /\ fr' = [fr EXCEPT ![p] = NoFrame]

\* the response of an IPAM call
ReturnAddr(p, address, err, panicked) ==
    /\ pc' = [pc EXCEPT ![p] = "idle"]
    /\ resp' = [resp EXCEPT ![p] = [NoResp EXCEPT !.Address = address,
                                       !.err = err, !.panicked = panicked]]
    /\ fr' = [fr EXCEPT ![p] = NoFrame]

\* RequestAddress after nr, err := d.vxrNet.GetNetworkResourceBySubnet(...):
\* if nr == nil { return err, or "failed to get network from pool" }
RAResolved(p, nr, err) ==
    IF nr = NilNR
    THEN ReturnAddr(p, EmptyStr,
                    IF err # "nil" THEN err
                    ELSE "failed to get network from pool", FALSE)
    ELSE /\ fr' = [fr EXCEPT ![p] = [NoFrame EXCEPT
                        !.subnet = fr[p].subnet, !.addr = fr[p].addr,
                        !.routes = fr[p].routes, !.netID = nr.ID]]
         /\ pc' = [pc EXCEPT ![p] = "ra_connect"]
         /\ UNCHANGED resp

\* return (nr, err) from GetNetworkResourceByPool, to the caller of the
\* lookup or to the RequestAddress that resolves its network
ReturnByPool(p, nr, err) ==
    IF req[p].op = "RequestAddress"
    THEN RAResolved(p, nr, err)
    ELSE ReturnTop(p, nr, err)

\* return (nr, err) from GetNetworkResourceByID, to the caller of the
\* lookup or to the loop of GetNetworkResourceByPool
ReturnByID(p, nr, err) ==
    IF fr[p].caller = "top"
    THEN ReturnTop(p, nr, err)
    ELSE /\ pc' = [pc EXCEPT ![p] = "pool_cmp"]
         /\ fr' = [fr EXCEPT ![p].tnr = nr, ![p].terr = err,
                             ![p].nr = NilNR, ![p].key = EmptyStr]
         /\ UNCHANGED resp

\* ------------------------------------------------ GetNetworkResourceByID
StartByID(p) ==
    /\ pc[p] = "idle"
    /\ \E id \in IDArgs :
         /\ req' = [req EXCEPT ![p] = [NoReq EXCEPT
                        !.op = "GetNetworkResourceByID", !.id = id]]
         /\ fr' = [fr EXCEPT ![p] = [NoFrame EXCEPT !.id = id]]
         /\ gh' = [gh EXCEPT ![p] = [NoHist EXCEPT
                        !.pre = IF Settled(id) THEN nrByID[id] ELSE NilNR,
                        !.prev = ReturnedByID(p, id)]]
    /\ pc' = [pc EXCEPT ![p] = "id_rlock"]
    /\ resp' = [resp EXCEPT ![p] = NoResp]
    /\ UNCHANGED <<run, CacheVars, HostVars>>

\* c.nrCacheLock.RLock(): blocks while a writer has called Lock()
IDRLock(p) ==
    /\ pc[p] = "id_rlock"
    /\ writer = 0
    /\ readers' = readers \cup {p}
    /\ pc' = [pc EXCEPT ![p] = "id_check"]
    /\ UNCHANGED <<run, nrByID, nrByPool, writer, HostVars, req, fr,
                   resp, gh>>

\* a lookup that never finds its id in the index
IDCheckAlwaysMiss(p) ==
    /\ pc[p] = "id_check"
    /\ readers' = readers \ {p}
    /\ pc' = [pc EXCEPT ![p] = "id_inspect"]
    /\ UNCHANGED <<run, nrByID, nrByPool, writer, HostVars, req, fr, resp, gh>>

\* the index read and RUnlock, on a hit return the cached record
IDCheck(p) ==
    /\ pc[p] = "id_check"
    /\ readers' = readers \ {p}
    /\ IF fr[p].id \in DOMAIN nrByID
       THEN ReturnByID(p, nrByID[fr[p].id], "nil")
       ELSE /\ pc' = [pc EXCEPT ![p] = "id_inspect"]
            /\ UNCHANGED <<fr, resp>>
    /\ UNCHANGED <<run, nrByID, nrByPool, writer, HostVars, req, gh>>

\* the failure of the inspect call remembered in the ID index
IDInspectCachesFailure(p) ==
    /\ pc[p] = "id_inspect"
    /\ \/ /\ ReturnByID(p, NilNR, "InspectError")
          /\ Note(p, [gh[p] EXCEPT !.called = TRUE, !.inspectFailed = TRUE])
          /\ nrByID' = MapPut(nrByID, fr[p].id, NilNR)
       \/ /\ fr[p].id \in NetIDs
          /\ fr' = [fr EXCEPT ![p].nr = InspectResult(fr[p].id, FreshObj(fr[p].id))]
          /\ pc' = [pc EXCEPT ![p] = "cache_lock"]
          /\ Note(p, [gh[p] EXCEPT !.called = TRUE])
          /\ UNCHANGED <<resp, nrByID>>
    /\ UNCHANGED <<run, nrByPool, readers, writer, HostVars, req>>

\* c.dc.NetworkInspect: fails, or returns a fresh record
IDInspect(p) ==
    /\ pc[p] = "id_inspect"
    /\ \/ /\ ReturnByID(p, NilNR, "InspectError")
          /\ Note(p, [gh[p] EXCEPT !.called = TRUE, !.inspectFailed = TRUE])
       \/ /\ fr[p].id \in NetIDs
          /\ fr' = [fr EXCEPT ![p].nr = InspectResult(fr[p].id, FreshObj(fr[p].id))]
          /\ pc' = [pc EXCEPT ![p] = "cache_lock"]
          /\ Note(p, [gh[p] EXCEPT !.called = TRUE])
          /\ UNCHANGED resp
    /\ UNCHANGED <<run, nrByID, nrByPool, readers, writer, HostVars, req>>

\* ---------------------------------------------------- cacheNetworkResource
\* c.nrCacheLock.Lock(): announce the writer, which stops new readers ...
CacheLock(p) ==
    /\ pc[p] = "cache_lock"
    /\ writer = 0
    /\ writer' = p
    /\ pc' = [pc EXCEPT ![p] = "cache_wait"]
    /\ UNCHANGED <<run, nrByID, nrByPool, readers, HostVars, req, fr,
                   resp, gh>>

\* the derivation error ignored: the record is cached under subnet ""
CacheDeriveUnchecked(p) ==
    /\ pc[p] = "cache_wait"
    /\ readers = {}
    /\ fr' = [fr EXCEPT ![p].key = poolFromNR(fr[p].nr).pool]
    /\ pc' = [pc EXCEPT ![p] = "cache_id"]
    /\ UNCHANGED <<run, nrByID, nrByPool, readers, writer, HostVars, req, resp,
                   gh>>

\* ... wait for the active readers to leave; then
\* pool, err := poolFromNR(nr); on error unlock (deferred) and return
CacheDerive(p) ==
    /\ pc[p] = "cache_wait"
    /\ readers = {}
    /\ LET d == poolFromNR(fr[p].nr) IN
         IF d.err # "nil"
         THEN /\ writer' = 0
              /\ ReturnByID(p, fr[p].nr, "nil")
         ELSE /\ fr' = [fr EXCEPT ![p].key = d.pool]
              /\ pc' = [pc EXCEPT ![p] = "cache_id"]
              /\ UNCHANGED <<writer, resp>>
    /\ UNCHANGED <<run, nrByID, nrByPool, readers, HostVars, req, gh>>

\* c.nrByID[nr.ID] = nr
CacheID(p) ==
    /\ pc[p] = "cache_id"
    /\ nrByID' = MapPut(nrByID, fr[p].nr.ID, fr[p].nr)
    /\ pc' = [pc EXCEPT ![p] = "cache_pool"]
    /\ Note(p, [gh[p] EXCEPT !.wrote = TRUE])
    /\ UNCHANGED <<run, nrByPool, readers, writer, HostVars, req, fr, resp>>

\* the second write without the deferred Unlock
CachePoolKeepsLock(p) ==
    /\ pc[p] = "cache_pool"
    /\ nrByPool' = MapPut(nrByPool, fr[p].key, fr[p].nr)
    /\ ReturnByID(p, fr[p].nr, "nil")
    /\ Note(p, [gh[p] EXCEPT !.wrote = TRUE])
    /\ UNCHANGED <<run, nrByID, readers, writer, HostVars, req>>

\* c.nrByPool[pool] = nr, the deferred Unlock, and the return of &nr
CachePool(p) ==
    /\ pc[p] = "cache_pool"
    /\ nrByPool' = MapPut(nrByPool, fr[p].key, fr[p].nr)
    /\ writer' = 0
    /\ ReturnByID(p, fr[p].nr, "nil")
    /\ Note(p, [gh[p] EXCEPT !.wrote = TRUE])
    /\ UNCHANGED <<run, nrByID, readers, HostVars, req>>

\* --------------------------------------------------- poolFromNR, called
\* poolFromNR(nr) called on a record with a given configuration: the
\* argument is kept in fr[p].nr, the result in resp[p].Pool and resp[p].err
CallPoolFromNR(p) ==
    /\ pc[p] = "idle"
    /\ \E cfg \in ConfigArgs :
         LET nr == [ID |-> "", Config |-> cfg, obj |-> 1]
             d == poolFromNR(nr)
         IN  /\ req' = [req EXCEPT ![p] = [NoReq EXCEPT !.op = "poolFromNR"]]
             /\ fr' = [fr EXCEPT ![p] = [NoFrame EXCEPT !.nr = nr]]
             /\ resp' = [resp EXCEPT ![p] = [NoResp EXCEPT !.Pool = d.pool,
                                                           !.err = d.err]]
    /\ UNCHANGED <<run, CacheVars, HostVars, pc, gh>>

\* ---------------------------------------------- GetNetworkResourceByPool
StartByPool(p) ==
    /\ pc[p] = "idle"
    /\ \E pool \in PoolArgs :
         /\ req' = [req EXCEPT ![p] = [NoReq EXCEPT
                        !.op = "GetNetworkResourceByPool", !.pool = pool]]
         /\ gh' = [gh EXCEPT ![p] = [NoHist EXCEPT
                        !.pre = IF PoolSettled(pool) THEN nrByPool[pool]
                                ELSE NilNR,
                        !.prev = ReturnedByPool(p, pool)]]
         /\ fr' = [fr EXCEPT ![p] = [NoFrame EXCEPT !.pool = pool]]
    /\ pc' = [pc EXCEPT ![p] = "pool_rlock"]
    /\ resp' = [resp EXCEPT ![p] = NoResp]
    /\ UNCHANGED <<run, CacheVars, HostVars>>

PoolRLock(p) ==
    /\ pc[p] = "pool_rlock"
    /\ writer = 0
    /\ readers' = readers \cup {p}
    /\ pc' = [pc EXCEPT ![p] = "pool_check"]
    /\ UNCHANGED <<run, nrByID, nrByPool, writer, HostVars, req, fr,
                   resp, gh>>

PoolCheck(p) ==
    /\ pc[p] = "pool_check"
    /\ readers' = readers \ {p}
    /\ IF fr[p].pool \in DOMAIN nrByPool
       THEN ReturnByPool(p, nrByPool[fr[p].pool], "nil")
       ELSE /\ pc' = [pc EXCEPT ![p] = "pool_list"]
            /\ UNCHANGED <<fr, resp>>
    /\ UNCHANGED <<run, nrByID, nrByPool, writer, HostVars, req, gh>>

\* for _, n := range nl: the i-th round calls c.GetNetworkResourceByID(n.ID);
\* the list exhausted, nr is still nil: return nr, nil.  (h: the history of
\* the call so far; the rounds begun are counted in it.)
PoolRange(p, nl, i, h) ==
    IF i > Len(nl)
    THEN /\ ReturnByPool(p, NilNR, "nil")
         /\ Note(p, h)
    ELSE /\ fr' = [fr EXCEPT ![p] = [@ EXCEPT !.nl = nl, !.i = i,
                                        !.id = nl[i], !.caller = "pool",
                                        !.nr = NilNR, !.key = EmptyStr,
                                        !.tnr = NilNR, !.terr = "nil"]]
         /\ pc' = [pc EXCEPT ![p] = "id_rlock"]
         /\ Note(p, [h EXCEPT !.visited = i])
         /\ UNCHANGED resp

\* c.dc.NetworkList with the driver filter: fails, or returns the list
PoolList(p) ==
    /\ pc[p] = "pool_list"
    /\ \/ /\ ReturnByPool(p, NilNR, "ListError")
          /\ Note(p, [gh[p] EXCEPT !.called = TRUE, !.listFailed = TRUE])
       \/ PoolRange(p, NetworkList, 1, [gh[p] EXCEPT !.called = TRUE])
    /\ UNCHANGED <<run, CacheVars, HostVars, req>>

\* the candidate's inspect failure returned instead of skipped
PoolCmpPropagates(p) ==
    /\ pc[p] = "pool_cmp"
    /\ IF fr[p].terr # "nil"
       THEN ReturnByPool(p, NilNR, fr[p].terr) /\ UNCHANGED gh
       ELSE IF poolFromNR(fr[p].tnr).pool = fr[p].pool
            THEN ReturnByPool(p, fr[p].tnr, "nil") /\ UNCHANGED gh
            ELSE PoolRange(p, fr[p].nl, fr[p].i + 1, gh[p])
    /\ UNCHANGED <<run, CacheVars, HostVars, req>>

\* if err != nil { continue }; tp, _ := poolFromNR(tnr);
\* if tp == pool { nr = tnr; break }
PoolCmp(p) ==
    /\ pc[p] = "pool_cmp"
    /\ IF fr[p].terr # "nil"
       THEN PoolRange(p, fr[p].nl, fr[p].i + 1, gh[p])
       ELSE IF poolFromNR(fr[p].tnr).pool = fr[p].pool
            THEN ReturnByPool(p, fr[p].tnr, "nil") /\ UNCHANGED gh
            ELSE PoolRange(p, fr[p].nl, fr[p].i + 1, gh[p])
    /\ UNCHANGED <<run, CacheVars, HostVars, req>>

\* =========================================================== vxrIpam
\* -------------------------------------------------------- package net
\* the network number of address a under a prefix of l bits
NetworkOf(a, l) == a - (a % Pow2(AddrBits - l))

\* net.ParseCIDR: "a/l" with l at most the address width; the returned
\* subnet is the address masked
ParseCIDR(s) ==
    IF Len(s) = 2 /\ s[1] \in Addrs /\ s[2] \in 0..AddrBits
    THEN [err |-> "nil",
          subnet |-> [IP |-> NetworkOf(s[1], s[2]), Mask |-> s[2]]]
    ELSE [err |-> "invalid CIDR address", subnet |-> NilAddr]

\* net.ParseIP: nil (-1) unless the text is an address
ParseIP(s) == IF Len(s) = 1 /\ s[1] \in Addrs THEN s[1] ELSE -1

\* the string "<nil>"
NilStr == << -1 >>

\* (*net.IPNet).String: the address as it is (not masked) and the prefix
\* length, "<nil>" without an address or a mask
IPNetString(n) ==
    IF n.IP = -1 \/ n.Mask = -1 THEN NilStr ELSE <<n.IP, n.Mask>>

\* net.CIDRMask(ones, bits)
CIDRMask(ones, bits) == ones

\* (net.IPMask).Size: ones and bits
MaskBits(m) == AddrBits

\* (*net.IPNet).Contains: the address lies in the subnet
Contains(subnet, a) == a \in Addrs /\ NetworkOf(a, subnet.Mask) = subnet.IP

\* the last address of the subnet
Broadcast(subnet) == subnet.IP + Pow2(AddrBits - subnet.Mask) - 1

\* iputil.RandAddr(subnet): the addresses it may return, the host addresses
\* of the subnet (neither its network nor its broadcast address)
RandAddr(subnet) ==
    {a \in Addrs : Contains(subnet, a)} \ {subnet.IP, Broadcast(subnet)}

\* the gateway option never recognised
NeverGateway(r) == FALSE

\* r.Options["RequestAddressType"] == "com.docker.network.gateway"
IsGatewayRequest(r) == r.gateway

\* ------------------------------------------------------ package netlink
HostRoute(a, gw) == [Dst |-> [IP |-> a, Mask |-> AddrBits], Gw |-> gw]

\* the addresses that have a single-host route
HostRouted(tbl) == {r.Dst.IP : r \in {x \in tbl : x.Dst.Mask = AddrBits}}

\* netlink.RouteListFiltered(0, &Route{Dst: dst}, RT_FILTER_DST): the routes
\* whose destination has the address and the mask of dst
RouteListFiltered(tbl, dst) ==
    {r \in tbl : r.Dst.IP = dst.IP /\ r.Dst.Mask = dst.Mask}

\* an insertion that is not exclusive: no destination counts as present
RouteNeverExists(tbl, dst) == FALSE

\* netlink.RouteAdd creates exclusively: it fails when the destination
\* already has a route
RouteExists(tbl, dst) == \E r \in tbl : r.Dst = dst

\* routes := []netlink.Route{{}}
EmptyRoute == [Dst |-> NilAddr, Gw |-> -1]

\* the loop condition, len(routes) > 0, ignored: the loop body runs once
LoopOnce(routes) == routes = {EmptyRoute}

\* for len(routes) > 0
LoopContinues(routes) == Cardinality(routes) > 0

\* ------------------------------------------------- the collaborator vxrNet
\* the gateway of a subnet: its first address
GatewayOf(subnet) == subnet.IP

\* -------------------------------------------------------- request inputs
Malformed == <<PoolBase>>
PoolIDArgs == {P1, Malformed}
\* no address, an address of P1, an address outside P1
AddressArgs == {EmptyStr, <<PoolBase + 1>>, <<PoolBase - 1>>}

\* the routing table the daemon may find: the subnet's own route and
\* single-host routes left by earlier allocations
SubnetRoute == [Dst |-> [IP |-> PoolBase, Mask |-> PoolLen], Gw |-> -1]
InitTables ==
    {{SubnetRoute} \cup t :
        t \in SUBSET {HostRoute(PoolBase + 1,
                                GatewayOf(ParseCIDR(P1).subnet))}}

\* ------------------------------------------------------- Driver, one-steps
\* the step of the request is appended to its history
Step(p, name) ==
    gh' = [gh EXCEPT ![p].steps =
              IF @ # <<>> /\ @[Len(@)] = name THEN @ ELSE Append(@, name)]

\* a pool request that rejects a pool that is not a CIDR
RequestPoolValidates(p) ==
    /\ pc[p] = "idle"
    /\ \E pool \in PoolIDArgs :
         /\ req' = [req EXCEPT ![p] = [NoReq EXCEPT !.op = "RequestPool",
                                                     !.pool = pool]]
         /\ resp' = [resp EXCEPT ![p] =
                        IF ParseCIDR(pool).err # "nil"
                        THEN [NoResp EXCEPT !.err = ParseCIDR(pool).err]
                        ELSE [NoResp EXCEPT !.PoolID = pool, !.Pool = pool]]
    /\ gh' = [gh EXCEPT ![p] = NoHist]
    /\ UNCHANGED <<run, CacheVars, HostVars, pc, fr>>

\* return &ipam.RequestPoolResponse{PoolID: r.Pool, Pool: r.Pool}, nil
RequestPool(p) ==
    /\ pc[p] = "idle"
    /\ \E pool \in PoolIDArgs :
         /\ req' = [req EXCEPT ![p] = [NoReq EXCEPT !.op = "RequestPool",
                                                     !.pool = pool]]
         /\ resp' = [resp EXCEPT ![p] = [NoResp EXCEPT !.PoolID = pool,
                                                       !.Pool = pool]]
    /\ gh' = [gh EXCEPT ![p] = NoHist]
    /\ UNCHANGED <<run, CacheVars, HostVars, pc, fr>>

ReleasePool(p) ==
    /\ pc[p] = "idle"
    /\ \E pool \in {P1} :
         req' = [req EXCEPT ![p] = [NoReq EXCEPT !.op = "ReleasePool",
                                                 !.PoolID = pool]]
    /\ resp' = [resp EXCEPT ![p] = NoResp]
    /\ gh' = [gh EXCEPT ![p] = NoHist]
    /\ UNCHANGED <<run, CacheVars, HostVars, pc, fr>>

\* a release that removes the single-host route of the address
ReleaseAddressRemovesRoute(p) ==
    /\ pc[p] = "idle"
    /\ \E pool \in {P1}, a \in AddressArgs \ {EmptyStr} :
         /\ req' = [req EXCEPT ![p] = [NoReq EXCEPT !.op = "ReleaseAddress",
                                         !.PoolID = pool, !.Address = a]]
         /\ rtable' = {r \in rtable :
                          r.Dst # [IP |-> ParseIP(a), Mask |-> AddrBits]}
    /\ resp' = [resp EXCEPT ![p] = NoResp]
    /\ gh' = [gh EXCEPT ![p] = NoHist]
    /\ UNCHANGED <<run, CacheVars, attached, everRouted, routed0, pc, fr>>

ReleaseAddress(p) ==
    /\ pc[p] = "idle"
    /\ \E pool \in {P1}, a \in AddressArgs \ {EmptyStr} :
         req' = [req EXCEPT ![p] = [NoReq EXCEPT !.op = "ReleaseAddress",
                                       !.PoolID = pool, !.Address = a]]
    /\ resp' = [resp EXCEPT ![p] = NoResp]
    /\ gh' = [gh EXCEPT ![p] = NoHist]
    /\ UNCHANGED <<run, CacheVars, HostVars, pc, fr>>

\* ------------------------------------------------- Driver.RequestAddress
\* The call up to the loop: ParseCIDR (its error is logged only), addr built
\* from subnet.Mask (a nil subnet panics), the gateway return, the host mask.
RequestAddress(p) ==
    /\ pc[p] = "idle"
    /\ \E pool \in PoolIDArgs, a \in AddressArgs, g \in BOOLEAN :
        LET r == [NoReq EXCEPT !.op = "RequestAddress", !.PoolID = pool,
                               !.Address = a, !.gateway = g]
            parsed == ParseCIDR(r.PoolID)
            subnet == parsed.subnet
            addr == [IP |-> ParseIP(r.Address), Mask |-> subnet.Mask]
            ml == MaskBits(addr.Mask)
        IN
        /\ req' = [req EXCEPT ![p] = r]
        /\ gh' = [gh EXCEPT ![p] = [NoHist EXCEPT
                      !.released = /\ req[p].op = "ReleaseAddress"
                                   /\ req[p].Address = a
                                   /\ a # EmptyStr]]
        /\ IF parsed.err # "nil"
           THEN ReturnAddr(p, EmptyStr, "nil", TRUE)
           ELSE IF IsGatewayRequest(r)
           THEN ReturnAddr(p, IPNetString(addr), "nil", FALSE)
           ELSE /\ fr' = [fr EXCEPT ![p] = [NoFrame EXCEPT
                             !.subnet = subnet,
                             !.addr = [addr EXCEPT !.Mask = CIDRMask(ml, ml)],
                             !.routes = {EmptyRoute}]]
                /\ pc' = [pc EXCEPT ![p] = "ra_loop"]
                /\ resp' = [resp EXCEPT ![p] = NoResp]
    /\ UNCHANGED <<run, CacheVars, HostVars>>

\* for len(routes) > 0 { if addr.IP == nil { addr.IP = iputil.RandAddr(subnet) }
RALoop(p) ==
    /\ pc[p] = "ra_loop"
    /\ IF LoopContinues(fr[p].routes)
       THEN /\ IF fr[p].addr.IP = -1
               THEN \E a \in RandAddr(fr[p].subnet) :
                        fr' = [fr EXCEPT ![p].addr.IP = a]
               ELSE UNCHANGED fr
            /\ pc' = [pc EXCEPT ![p] = "ra_query"]
       ELSE /\ pc' = [pc EXCEPT ![p] = "ra_resolve"]
            /\ UNCHANGED fr
    /\ UNCHANGED <<run, CacheVars, HostVars, req, resp, gh>>

\* a query that also reports the candidates other requests hold after their
\* loop (a reservation no request makes)
RAQueryReserved(p) ==
    /\ pc[p] = "ra_query"
    /\ \/ /\ ReturnAddr(p, EmptyStr, "RouteListError", FALSE)
       \/ /\ fr' = [fr EXCEPT ![p].routes =
                        RouteListFiltered(rtable, fr[p].addr)
                          \cup {[Dst |-> fr[q].addr, Gw |-> -1] :
                                  q \in {x \in Procs \ {p} :
                                           /\ pc[x] \notin {"idle",
                                                 "ra_loop", "ra_query"}
                                           /\ fr[x].addr = fr[p].addr}}]
          /\ pc' = [pc EXCEPT ![p] = "ra_loop"]
          /\ UNCHANGED resp
    /\ Step(p, "query")
    /\ UNCHANGED <<run, CacheVars, HostVars, req>>

\* routes, err = netlink.RouteListFiltered(...); an error is returned
RAQuery(p) ==
    /\ pc[p] = "ra_query"
    /\ \/ /\ ReturnAddr(p, EmptyStr, "RouteListError", FALSE)
       \/ /\ fr' = [fr EXCEPT ![p].routes =
                        RouteListFiltered(rtable, fr[p].addr)]
          /\ pc' = [pc EXCEPT ![p] = "ra_loop"]
          /\ UNCHANGED resp
    /\ Step(p, "query")
    /\ UNCHANGED <<run, CacheVars, HostVars, req>>

\* vxrNet's GetNetworkResourceBySubnet(pool): the lookup by pool of the
\* network-resource cache, entered at its first statement
GetNetworkResourceBySubnet(p, pool) ==
    /\ fr' = [fr EXCEPT ![p].pool = pool]
    /\ pc' = [pc EXCEPT ![p] = "pool_rlock"]

\* nr, err := d.vxrNet.GetNetworkResourceBySubnet(r.PoolID) is called
RAResolve(p) ==
    /\ pc[p] = "ra_resolve"
    /\ GetNetworkResourceBySubnet(p, req[p].PoolID)
    /\ Step(p, "resolve")
    /\ UNCHANGED <<run, CacheVars, HostVars, req, resp>>

\* the error of ConnectHost ignored: the request goes on unattached
RAConnectIgnoresError(p) ==
    /\ pc[p] = "ra_connect"
    /\ \/ UNCHANGED attached
       \/ attached' = attached \cup {fr[p].netID}
    /\ pc' = [pc EXCEPT ![p] = "ra_gateway"]
    /\ Step(p, "attach")
    /\ UNCHANGED <<run, CacheVars, rtable, everRouted, routed0, req, fr, resp>>

\* _, err = d.vxrNet.ConnectHost(nr.ID)
RAConnect(p) ==
    /\ pc[p] = "ra_connect"
    /\ \/ /\ ReturnAddr(p, EmptyStr, "AttachError", FALSE)
          /\ UNCHANGED attached
       \/ /\ attached' = attached \cup {fr[p].netID}
          /\ pc' = [pc EXCEPT ![p] = "ra_gateway"]
          /\ UNCHANGED <<fr, resp>>
    /\ Step(p, "attach")
    /\ UNCHANGED <<run, CacheVars, rtable, everRouted, routed0, req>>

\* gw, err := d.vxrNet.GetGatewayBySubnet(r.PoolID)
RAGateway(p) ==
    /\ pc[p] = "ra_gateway"
    /\ \/ /\ ReturnAddr(p, EmptyStr, "GatewayNotFound", FALSE)
       \/ /\ fr' = [fr EXCEPT ![p].gw = GatewayOf(fr[p].subnet)]
          /\ pc' = [pc EXCEPT ![p] = "ra_add"]
          /\ UNCHANGED resp
    /\ Step(p, "gateway")
    /\ UNCHANGED <<run, CacheVars, HostVars, req>>

\* the response carries the host mask of the route
RARouteAddHostMask(p) ==
    /\ pc[p] = "ra_add"
    /\ \/ /\ ReturnAddr(p, EmptyStr, "RouteAddError", FALSE)
          /\ UNCHANGED <<rtable, everRouted>>
       \/ /\ ~RouteExists(rtable, fr[p].addr)
          /\ rtable' = rtable \cup {[Dst |-> fr[p].addr, Gw |-> fr[p].gw]}
          /\ everRouted' = everRouted \cup {fr[p].addr.IP}
          /\ ReturnAddr(p, IPNetString(fr[p].addr), "nil", FALSE)
    /\ Step(p, "install")
    /\ UNCHANGED <<run, CacheVars, attached, routed0, req>>

\* err = netlink.RouteAdd(&Route{Dst: addr, Gw: gw.IP}); an error is
\* returned; else addr.Mask = subnet.Mask and addr.String() is the response
RARouteAdd(p) ==
    /\ pc[p] = "ra_add"
    /\ \/ /\ ReturnAddr(p, EmptyStr, "RouteAddError", FALSE)
          /\ UNCHANGED <<rtable, everRouted>>
       \/ /\ ~RouteExists(rtable, fr[p].addr)
          /\ rtable' = rtable \cup {[Dst |-> fr[p].addr, Gw |-> fr[p].gw]}
          /\ everRouted' = everRouted \cup {fr[p].addr.IP}
          /\ ReturnAddr(p, IPNetString([fr[p].addr EXCEPT
                                           !.Mask = fr[p].subnet.Mask]),
                        "nil", FALSE)
    /\ Step(p, "install")
    /\ UNCHANGED <<run, CacheVars, attached, routed0, req>>

\* =========================================================== main.Run
\* Run from the creation of cerr on.  run.main is the statement Run is at,
\* run.srv the state of the goroutine "cerr <- nh.ServeUnix(...)", run.c the
\* number of signals buffered in c, run.closed whether cerr is closed,
\* run.down whether the handler has been told to shut down, run.active the
\* requests the handler is serving.  History: run.shut (Shutdown has
\* returned), run.got (the goroutine's result has been received from cerr).
RunInit ==
    [main |-> "start", srv |-> "none", val |-> "nil", err |-> "nil",
     c |-> 0, closed |-> FALSE, down |-> FALSE, active |-> {},
     shut |-> FALSE, got |-> FALSE]

\* everything but run
DaemonVars == <<nrByID, nrByPool, readers, writer, rtable, attached,
                everRouted, routed0, pc, req, fr, resp, gh>>

\* what nh.ServeUnix may return by itself: the listener failed
ServeErrors == {"ListenError"}
\* what nh.Shutdown may return
ShutdownErrors == {"nil", "ShutdownError"}

\* cerr := make(chan error); go func() { cerr <- nh.ServeUnix(...) }();
\* c := make(chan os.Signal, 1); signal.Notify(c, ...)
RunGo ==
    /\ run.main = "start"
    /\ run' = [run EXCEPT !.main = "select", !.srv = "spawned"]
    /\ UNCHANGED DaemonVars

\* the goroutine calls nh.ServeUnix, which listens and accepts requests
ServeStart ==
    /\ run.srv = "spawned"
    /\ run' = [run EXCEPT !.srv = "serve"]
    /\ UNCHANGED DaemonVars

\* an interrupt or SIGTERM arrives: it is buffered in c unless c is full
Signal ==
    /\ run.main \notin {"start", "exit"}
    /\ run.c = 0
    /\ run' = [run EXCEPT !.c = 1]
    /\ UNCHANGED DaemonVars

\* the handler accepts a request and serves it on a goroutine of its own
HandlerBegin(p) ==
    /\ run.srv = "serve"
    /\ ~run.down
    /\ p \notin run.active
    /\ run' = [run EXCEPT !.active = @ \cup {p}]
    /\ UNCHANGED DaemonVars

\* the request has been answered
HandlerEnd(p) ==
    /\ p \in run.active
    /\ run' = [run EXCEPT !.active = @ \ {p}]
    /\ UNCHANGED DaemonVars

\* nh.ServeUnix returns an error of the listener; the goroutine goes on to
\* send it on cerr
ServeFail ==
    /\ run.srv = "serve"
    /\ \E e \in ServeErrors :
         run' = [run EXCEPT !.srv = "send", !.val = e]
    /\ UNCHANGED DaemonVars

\* nh.ServeUnix returns http.ErrServerClosed once Shutdown has been called
ServeClosed ==
    /\ run.srv = "serve"
    /\ run.down
    /\ run' = [run EXCEPT !.srv = "send", !.val = "ErrServerClosed"]
    /\ UNCHANGED DaemonVars

\* select { case err = <-cerr: ...   case <-c: }
RunSelect ==
    /\ run.main = "select"
    /\ \/ /\ run.srv = "send"
          /\ ~run.closed
          /\ run' = [run EXCEPT !.err = run.val, !.srv = "done",
                                !.got = TRUE, !.main = "close"]
       \/ /\ run.c = 1
          /\ run' = [run EXCEPT !.c = 0, !.main = "shutdown"]
    /\ UNCHANGED DaemonVars

\* the first case without its close(cerr)
RunCloseOmitted ==
    /\ run.main = "close"
    /\ run' = [run EXCEPT !.main = "shutdown"]
    /\ UNCHANGED DaemonVars

\* the first case goes on: the error is logged, close(cerr)
RunClose ==
    /\ run.main = "close"
    /\ run' = [run EXCEPT !.closed = TRUE, !.main = "shutdown"]
    /\ UNCHANGED DaemonVars

\* err = nh.Shutdown(context.Background()) is called: the handler stops
\* accepting
RunShutdownCall ==
    /\ run.main = "shutdown"
    /\ run' = [run EXCEPT !.down = TRUE, !.main = "shutdown_wait"]
    /\ UNCHANGED DaemonVars

\* ... and returns when no request is being served any more; its error is
\* logged only
RunShutdownReturn ==
    /\ run.main = "shutdown_wait"
    /\ run.active = {}
    /\ \E e \in ShutdownErrors :
         run' = [run EXCEPT !.err = e, !.shut = TRUE, !.main = "recv"]
    /\ UNCHANGED DaemonVars

\* err = <-cerr: the zero value at once when cerr is closed, else the value
\* the goroutine is sending; then Run returns
RunRecv ==
    /\ run.main = "recv"
    /\ \/ /\ run.closed
          /\ run' = [run EXCEPT !.err = "nil", !.main = "exit"]
       \/ /\ ~run.closed
          /\ run.srv = "send"
          /\ run' = [run EXCEPT !.err = run.val, !.srv = "done",
                                !.got = TRUE, !.main = "exit"]
    /\ UNCHANGED DaemonVars

\* --------------------------------------------------------- specifications
Init ==
    /\ nrByID = <<>>
    /\ nrByPool = <<>>
    /\ readers = {}
    /\ writer = 0
    /\ rtable \in InitTables
    /\ everRouted = HostRouted(rtable)
    /\ routed0 = HostRouted(rtable)
    /\ attached = {}
    /\ pc = [p \in Procs |-> "idle"]
    /\ req = [p \in Procs |-> NoReq]
    /\ fr = [p \in Procs |-> NoFrame]
    /\ resp = [p \in Procs |-> NoResp]
    /\ gh = [p \in Procs |-> NoHist]
    /\ run = RunInit

\* the cache serving lookups; the routing table plays no part
InitCache == Init /\ rtable = {SubnetRoute}

NextCache ==
    \E p \in Procs :
        \/ StartByID(p)
        \/ IDRLock(p)
        \/ IDCheck(p)
        \/ IDInspect(p)
        \/ CacheLock(p)
        \/ CacheDerive(p)
        \/ CacheID(p)
        \/ CachePool(p)
        \/ StartByPool(p)
        \/ PoolRLock(p)
        \/ PoolCheck(p)
        \/ PoolList(p)
        \/ PoolCmp(p)

SpecCache == InitCache /\ [][NextCache]_vars

\* the steps of a lookup once it has been called
LookupStep(p) ==
    \/ IDRLock(p)
    \/ IDCheck(p)
    \/ IDInspect(p)
    \/ CacheLock(p)
    \/ CacheDerive(p)
    \/ CacheID(p)
    \/ CachePool(p)
    \/ PoolRLock(p)
    \/ PoolCheck(p)
    \/ PoolList(p)
    \/ PoolCmp(p)

\* The cache under the keys that take the lock on each of its paths: a
\* network without subnet looked up by id (cacheNetworkResource returns
\* early), a pool looked up through the list and the nested lookup, then
\* found in the index.
LockIDArgs == {"n3"}
LockPoolArgs == {P1}

StartByIDLock(p) == StartByID(p) /\ req'[p].id \in LockIDArgs
StartByPoolLock(p) == StartByPool(p) /\ req'[p].pool \in LockPoolArgs

NextLock ==
    \E p \in Procs :
        \/ StartByIDLock(p)
        \/ StartByPoolLock(p)
        \/ LookupStep(p)

SpecLock == InitCache /\ [][NextLock]_vars

\* every lookup runs on a goroutine the scheduler keeps running and its
\* runtime calls return; sync.RWMutex admits a goroutine blocked in RLock or
\* Lock once the lock is released often enough (Unlock hands the lock to the
\* readers that were waiting, writers queue on a mutex)
FairSpecLock ==
    /\ SpecLock
    /\ \A p \in Procs :
          /\ WF_vars(LookupStep(p))
          /\ SF_vars(IDRLock(p) \/ PoolRLock(p))
          /\ SF_vars(CacheLock(p))

\* the pool derivation applied to arbitrary configurations
NextDerive == CallPoolFromNR(1)

SpecDerive == InitCache /\ [][NextDerive]_vars

\* the allocator serving the IPAM calls whose Address is one of args
IpamSteps(p, args) ==
    \/ RequestPool(p)
    \/ ReleasePool(p)
    \/ ReleaseAddress(p) /\ req'[p].Address \in args
    \/ RequestAddress(p) /\ req'[p].Address \in args
    \/ RALoop(p)
    \/ RAQuery(p)
    \/ RAResolve(p)
    \/ LookupStep(p)
    \/ RAConnect(p)
    \/ RAGateway(p)
    \/ RARouteAdd(p)

\* calls that name no address or an address of the pool
PoolAddressArgs == {a \in AddressArgs :
                      a = EmptyStr \/ Contains(ParseCIDR(P1).subnet, ParseIP(a))}

IpamStep(p) == IpamSteps(p, PoolAddressArgs)

NextIpam == \E p \in Procs : IpamStep(p)

SpecIpam == Init /\ [][NextIpam]_vars

\* calls that name their address, inside the pool or outside, on a host
\* without single-host routes
ExplicitArgs == AddressArgs \ {EmptyStr}

NextExplicit == \E p \in Procs : IpamSteps(p, ExplicitArgs)

SpecExplicit == InitCache /\ [][NextExplicit]_vars

\* every request is served by its own goroutine, which the scheduler keeps
\* running
FairSpecIpam == SpecIpam /\ \A p \in Procs : WF_vars(IpamStep(p))

\* Run, its serving goroutine, the signals and the requests being served
ServeGoroutine ==
    \/ ServeStart
    \/ ServeClosed

RunMain ==
    \/ RunGo
    \/ RunSelect
    \/ RunClose
    \/ RunShutdownCall
    \/ RunShutdownReturn
    \/ RunRecv

NextRun ==
    \/ RunMain
    \/ Signal
    \/ ServeFail
    \/ ServeGoroutine
    \/ \E p \in Procs : HandlerBegin(p) \/ HandlerEnd(p)

SpecRun == InitCache /\ [][NextRun]_vars

\* the scheduler keeps Run and the serving goroutine running, and ServeUnix
\* returns once Shutdown has been called; a request being served may never
\* be answered
FairSpecRun ==
    /\ SpecRun
    /\ WF_vars(RunMain)
    /\ WF_vars(ServeGoroutine)

\* ------------------------------------------------------- claims: the cache
DoneByID(p) == pc[p] = "idle" /\ req[p].op = "GetNetworkResourceByID"
DoneByPool(p) == pc[p] = "idle" /\ req[p].op = "GetNetworkResourceByPool"
DoneLookup(p) == DoneByID(p) \/ DoneByPool(p)

\* caller p takes a step
Acts(p) == <<pc[p], req[p], resp[p], gh[p], fr[p]>>
              # <<pc'[p], req'[p], resp'[p], gh'[p], fr'[p]>>

\* the writer is inside its critical section
WriterHolds == writer # 0 /\ pc[writer] \in {"cache_id", "cache_pool"}

\* C1 as stated: once a lookup has returned a record of a network, a later
\* lookup by that network's id or by its pool returns the identical record
\* and issues no inspect or list call.
C1_CacheCoherency ==
    \A p \in Procs :
        (DoneLookup(p) /\ gh[p].prev # NilNR)
            => (resp[p].nr = gh[p].prev /\ ~gh[p].called)

\* C1 amended: once the record of a network is cached and no lookup that
\* missed it is still in flight, every later lookup by its id returns that
\* identical record, without error and without any inspect or list call;
\* a later lookup by its pool does so once this holds of every network that
\* derives the pool.
C1_SettledCoherency ==
    \A p \in Procs :
        (DoneLookup(p) /\ gh[p].pre # NilNR)
            => (resp[p].nr = gh[p].pre /\ resp[p].err = "nil"
                /\ ~gh[p].called)

C1_Witness ==
    \E p, q \in Procs :
        /\ DoneByID(p) /\ gh[p].pre # NilNR /\ resp[p].nr = gh[p].pre
        /\ DoneByPool(q) /\ gh[q].pre # NilNR /\ resp[q].nr = gh[q].pre

\* C2 as stated: whenever no writer holds the exclusive lock, every record
\* of the ID index is in the Pool index under its derived subnet, both
\* entries being the identical record, and neither index holds a record the
\* other lacks.
C2_DualIndex ==
    ~WriterHolds =>
        /\ \A id \in DOMAIN nrByID :
              LET d == poolFromNR(nrByID[id]) IN
                /\ d.err = "nil"
                /\ d.pool \in DOMAIN nrByPool
                /\ nrByPool[d.pool] = nrByID[id]
        /\ \A k \in DOMAIN nrByPool :
              /\ nrByPool[k].ID \in DOMAIN nrByID
              /\ nrByID[nrByPool[k].ID] = nrByPool[k]

\* C2 amended: whenever no writer holds the exclusive lock, every record of
\* the ID index is stored under its own id and has a derived subnet that is
\* a key of the Pool index; every Pool index entry is stored under its
\* derived subnet and is the identical record the ID index holds for its
\* network.  (Of several cached networks deriving one subnet the Pool index
\* holds the one cached last.)
C2_DualIndexAmended ==
    ~WriterHolds =>
        /\ \A id \in DOMAIN nrByID :
              LET d == poolFromNR(nrByID[id]) IN
                /\ nrByID[id].ID = id
                /\ d.err = "nil"
                /\ d.pool \in DOMAIN nrByPool
                /\ (nrByPool[d.pool].ID = id => nrByPool[d.pool] = nrByID[id])
        /\ \A k \in DOMAIN nrByPool :
              /\ poolFromNR(nrByPool[k]) = [pool |-> k, err |-> "nil"]
              /\ nrByPool[k].ID \in DOMAIN nrByID
              /\ nrByID[nrByPool[k].ID] = nrByPool[k]

C2_Witness ==
    /\ ~WriterHolds
    /\ {"n1", "n2"} \subseteq DOMAIN nrByID
    /\ P1 \in DOMAIN nrByPool
    /\ \E p \in Procs : pc[p] \in {"id_check", "pool_check"}

\* C10 as stated: every failed inspect or list call met while serving a
\* lookup is returned to the caller of the lookup as its error.
C10_FailurePropagated ==
    \A p \in Procs :
        (DoneLookup(p) /\ (gh[p].inspectFailed \/ gh[p].listFailed))
            => resp[p].err # "nil"

\* C10 amended: GetNetworkResourceByID returns an error exactly when its
\* inspect call failed, and GetNetworkResourceByPool exactly when its list
\* call failed (each with no record); a failed inspect of a listed candidate
\* during GetNetworkResourceByPool is skipped and never reported.
C10_FailureAmended ==
    \A p \in Procs :
        /\ DoneByID(p) =>
              /\ (resp[p].err # "nil") = gh[p].inspectFailed
              /\ gh[p].inspectFailed =>
                    (resp[p].err = "InspectError" /\ resp[p].nr = NilNR)
        /\ DoneByPool(p) =>
              /\ (resp[p].err # "nil") = gh[p].listFailed
              /\ gh[p].listFailed =>
                    (resp[p].err = "ListError" /\ resp[p].nr = NilNR)

C10_Witness ==
    \E p, q \in Procs :
        /\ DoneByPool(p) /\ gh[p].inspectFailed /\ resp[p].err = "nil"
        /\ DoneByID(q) /\ gh[q].inspectFailed /\ resp[q].err = "InspectError"

\* C11 as stated, for lookups all of whose runtime calls succeeded: after a
\* Pool-index miss the lookup returns the first listed network whose pool
\* derivation succeeds with the requested pool, having called
\* GetNetworkResourceByID for no network listed after it; when no listed
\* network derives the requested pool it returns no record and no error.
C11_FirstMatch ==
    \A p \in Procs :
        (DoneByPool(p) /\ gh[p].called /\ ~gh[p].listFailed
                       /\ ~gh[p].inspectFailed)
            => LET nl == NetworkList
                   want == [pool |-> req[p].pool, err |-> "nil"]
                   hits == {j \in 1..Len(nl) : DerivedPool(nl[j]) = want}
               IN  /\ resp[p].err = "nil"
                   /\ IF hits = {}
                      THEN resp[p].nr = NilNR
                      ELSE LET k == CHOOSE j \in hits :
                                        \A j2 \in hits : j <= j2
                           IN  /\ resp[p].nr.ID = nl[k]
                               /\ gh[p].visited = k

\* a lookup that ended with the failure of its own runtime call
FailedLookup(p) ==
    \/ DoneByID(p) /\ gh[p].inspectFailed
    \/ DoneByPool(p) /\ gh[p].listFailed

\* C12: a GetNetworkResourceByID whose inspect call fails, and a
\* GetNetworkResourceByPool whose list call fails, returns that failure and
\* no record, has written to neither index during the call, and leaves both
\* indexes unchanged in its failing step; a lookup that returns without
\* having issued a runtime call found its key in the index, so a lookup that
\* finds the key still absent issues the call again.
C12_FailedLookupLeavesCache ==
    [][\A p \in Procs :
         /\ (Acts(p) /\ FailedLookup(p)')
               => /\ resp'[p].nr = NilNR
                  /\ resp'[p].err = IF req'[p].op = "GetNetworkResourceByID"
                                    THEN "InspectError" ELSE "ListError"
                  /\ ~gh'[p].wrote
                  /\ UNCHANGED <<nrByID, nrByPool>>
         /\ (Acts(p) /\ DoneByID(p)' /\ ~gh'[p].called)
               => req'[p].id \in DOMAIN nrByID
         /\ (Acts(p) /\ DoneByPool(p)' /\ ~gh'[p].called)
               => req'[p].pool \in DOMAIN nrByPool]_vars

C12_Witness ==
    \E p, q \in Procs :
        /\ DoneByID(p) /\ gh[p].inspectFailed
        /\ req[p].id \notin DOMAIN nrByID
        /\ DoneByPool(q) /\ gh[q].listFailed
        /\ req[q].pool \notin DOMAIN nrByPool
        /\ nrByID # <<>>

\* C13: the pool derived from a record is the subnet of its first
\* configuration entry with a non-empty subnet (empty entries before it are
\* skipped, entries after it ignored), and the derivation fails exactly when
\* no entry has a non-empty subnet.
C13_DerivationOrder ==
    \A p \in Procs :
        req[p].op = "poolFromNR" =>
            LET cfg == fr[p].nr.Config
                full == {j \in 1..Len(cfg) : cfg[j] # EmptyStr}
            IN  /\ (resp[p].err # "nil") = (full = {})
                /\ full # {} =>
                      \E k \in full :
                          /\ \A j \in full : k <= j
                          /\ resp[p].Pool = cfg[k]

C13_Witness ==
    \E p \in Procs :
        /\ req[p].op = "poolFromNR"
        /\ fr[p].nr.Config = <<EmptyStr, P2, P1>>
        /\ resp[p].Pool = P2
        /\ resp[p].err = "nil"

\* --------------------------------------------------- claims: the allocator
DoneRA(p) == pc[p] = "idle" /\ req[p].op = "RequestAddress"

\* the request has returned an address
Returned(p) == DoneRA(p) /\ resp[p].err = "nil" /\ ~resp[p].panicked

PastLoop(p) ==
    /\ req[p].op = "RequestAddress"
    /\ pc[p] \notin {"idle", "ra_loop", "ra_query"}

\* a request without explicit address and without the gateway flag
Drawing(r) ==
    r.op = "RequestAddress" /\ ~r.gateway /\ r.Address = EmptyStr

\* C3: a request without explicit address and without the gateway flag never
\* returns an address that has, or ever had, a single-host route in the
\* routing table, be it left from before the daemon started or installed by
\* an earlier request: each of its queries finds no route exactly when the
\* table, as it is at the query, holds no single-host route for the
\* candidate; the loop is left exactly after such a query and with that
\* candidate; and the address returned is that candidate, which had no
\* single-host route until the request installed it.
C3_ConflictAvoidance ==
    [][\A p \in Procs :
         (Drawing(req[p]) /\ Acts(p)) =>
            /\ (pc[p] = "ra_query" /\ pc'[p] = "ra_loop")
                  => /\ (fr'[p].routes = {})
                          = (fr[p].addr.IP \notin HostRouted(rtable))
                     /\ fr'[p].addr = fr[p].addr
            /\ (pc[p] = "ra_loop")
                  => /\ (pc'[p] = "ra_resolve") = (fr[p].routes = {})
                     /\ (fr[p].addr.IP # -1) => fr'[p].addr = fr[p].addr
            /\ (PastLoop(p) /\ pc'[p] # "idle")
                  => /\ fr'[p].addr = fr[p].addr
                     /\ fr'[p].routes = {}
            /\ (pc[p] # "idle" /\ Returned(p)')
                  => /\ resp'[p].Address[1] = fr[p].addr.IP
                     /\ fr[p].routes = {}
                     /\ resp'[p].Address[1] \notin HostRouted(rtable)
                     /\ resp'[p].Address[1] \notin everRouted
                     /\ resp'[p].Address[1] \in RandAddr(fr[p].subnet)]_vars

\* an address the request could have drawn had its single-host route when
\* the daemon started; the request has returned another one
C3_Witness ==
    \E p \in Procs :
        /\ Returned(p) /\ Drawing(req[p])
        /\ \E b \in RandAddr(ParseCIDR(req[p].PoolID).subnet) :
              /\ b \in routed0
              /\ b # resp[p].Address[1]

\* C4 as stated: when the query has found a single-host route for the
\* candidate, the candidate is cleared to unset before the loop goes on (so
\* that a new address is drawn before the next query).
C4_Redraw ==
    \A p \in Procs :
        (pc[p] = "ra_loop" /\ fr[p].routes \notin {{}, {EmptyRoute}})
            => fr[p].addr.IP = -1

\* a gateway request with a well-formed pool and an explicit address
GatewayCall(r) ==
    /\ r.op = "RequestAddress"
    /\ r.gateway
    /\ ParseCIDR(r.PoolID).err = "nil"
    /\ ParseIP(r.Address) # -1

\* C5: a request carrying the gateway option returns, in its first step, the
\* supplied address with the pool's prefix length: no routing-table query, no
\* network resolution, attach, gateway resolution or route install happens,
\* and routing table, attachments and cache are unchanged.
C5_GatewayShortCircuit ==
    [][\A p \in Procs :
         (pc[p] = "idle" /\ Acts(p) /\ GatewayCall(req'[p]))
            => /\ pc'[p] = "idle"
               /\ resp'[p] = [NoResp EXCEPT !.Address =
                     <<ParseIP(req'[p].Address),
                       ParseCIDR(req'[p].PoolID).subnet.Mask>>]
               /\ gh'[p].steps = <<>>
               /\ UNCHANGED <<rtable, attached, nrByID, nrByPool>>]_vars

C5_Witness ==
    \E p \in Procs :
        /\ DoneRA(p) /\ GatewayCall(req[p])
        /\ resp[p].Address = <<PoolBase + 1, PoolLen>>
        /\ \E q \in Procs : PastLoop(q)

\* C6: when a non-gateway request returns an address, the routing table
\* holds a single-host route to it via the gateway of the pool's subnet, and
\* the returned CIDR carries the pool's prefix length.
C6_SuccessPostcondition ==
    \A p \in Procs :
        (Returned(p) /\ ~req[p].gateway) =>
            LET subnet == ParseCIDR(req[p].PoolID).subnet IN
              /\ Len(resp[p].Address) = 2
              /\ resp[p].Address[2] = subnet.Mask
              /\ HostRoute(resp[p].Address[1], GatewayOf(subnet)) \in rtable

\* a request has returned a host address it drew, routed via the gateway
C6_Witness ==
    \E p \in Procs :
        /\ Returned(p) /\ ~req[p].gateway
        /\ resp[p].Address = <<PoolBase + 2, PoolLen>>
        /\ HostRoute(PoolBase + 2, GatewayOf(ParseCIDR(P1).subnet)) \in rtable

\* C7 as stated: a request whose pool is not a well-formed CIDR returns an
\* error and no address, and runs none of the later steps.
C7_InvalidPoolFails ==
    \A p \in Procs :
        (DoneRA(p) /\ ParseCIDR(req[p].PoolID).err # "nil")
            => /\ resp[p].err # "nil"
               /\ ~resp[p].panicked
               /\ resp[p].Address = EmptyStr
               /\ gh[p].steps = <<>>

\* C8 as stated: every RequestAddress call eventually produces a response.
C8_BoundedResponse ==
    \A p \in Procs : (pc[p] # "idle") ~> (pc[p] = "idle")

\* caller p makes a release call
ReleaseCall(p) ==
    /\ pc[p] = "idle"
    /\ Acts(p)
    /\ req'[p].op \in {"ReleaseAddress", "ReleasePool"}

\* C9: ReleaseAddress and ReleasePool return no error and leave the routing
\* table and both cache indexes unchanged; so a non-gateway request for the
\* explicit address a that follows ReleaseAddress(pool, a) returns a only if
\* a never had a single-host route.
C9_NoOpRelease ==
    [][\A p \in Procs :
         /\ ReleaseCall(p)
               => /\ resp'[p] = NoResp
                  /\ pc'[p] = "idle"
                  /\ UNCHANGED <<rtable, attached, nrByID, nrByPool>>
         /\ (gh[p].released /\ pc[p] = "ra_add" /\ Returned(p)')
               => /\ resp'[p].Address[1] = ParseIP(req[p].Address)
                  /\ ParseIP(req[p].Address) \notin everRouted]_vars

\* a request that followed the release of its address has returned it; the
\* next request for it, after one more release, finds its route and stays in
\* the loop
C9_Witness ==
    \E p, q \in Procs :
        /\ Returned(p) /\ ~req[p].gateway /\ gh[p].released
        /\ resp[p].Address[1] = ParseIP(req[p].Address)
        /\ req[q].op = "RequestAddress" /\ gh[q].released
        /\ req[q].Address = req[p].Address
        /\ pc[q] = "ra_loop" /\ fr[q].routes # {} /\ fr[q].routes # {EmptyRoute}

\* ------------------------------------------------------------ claims: Run
\* C17: having left its select (a signal, or the listener's error, came
\* first), Run calls Shutdown before it receives from cerr again; it returns
\* only after Shutdown has returned and the serving goroutine's result has
\* been received from cerr; and the final receive from cerr never blocks
\* forever: once Shutdown has returned, Run returns.
C17_GracefulShutdown ==
    /\ [](run.main = "exit" => (run.shut /\ run.got /\ run.srv = "done"))
    /\ [](run.main = "recv" => run.shut)
    /\ [](run.main \in {"close", "shutdown"} => ~run.down)
    /\ (run.main = "recv") ~> (run.main = "exit")

\* the listener failed first: cerr was closed and the final receive returned
\* at once
C17_Witness ==
    /\ run.main = "exit"
    /\ run.closed
    /\ run.shut
    /\ run.c = 1

\* C14: every RequestPool(pool) returns PoolID = pool and Pool = pool without
\* error, whatever was called before, and changes neither the cache, the
\* routing table nor the attachments.
C14_IdempotentPool ==
    [][\A p \in Procs :
         (pc[p] = "idle" /\ Acts(p) /\ req'[p].op = "RequestPool")
            => /\ resp'[p] = [NoResp EXCEPT !.PoolID = req'[p].pool,
                                            !.Pool = req'[p].pool]
               /\ pc'[p] = "idle"
               /\ UNCHANGED <<nrByID, nrByPool, readers, writer, rtable,
                              attached>>]_vars

\* a pool that is no CIDR is echoed after addresses have been allocated
C14_Witness ==
    \E p \in Procs :
        /\ pc[p] = "idle" /\ req[p].op = "RequestPool"
        /\ resp[p].Pool = Malformed /\ resp[p].PoolID = Malformed
        /\ everRouted # routed0
        /\ attached # {}

\* the steps of a non-gateway request, in order
StepOrder == <<"query", "resolve", "attach", "gateway", "install">>

\* the step at which a request that returned this error failed
FailedAt(err) ==
    CASE err = "RouteListError" -> 1
      [] err \in {"ListError", "failed to get network from pool"} -> 2
      [] err = "AttachError" -> 3
      [] err = "GatewayNotFound" -> 4
      [] err = "RouteAddError" -> 5
      [] OTHER -> 0

\* the steps the request of p has run are the first ones of the order; a
\* failed request ran no step after the failing one and returns no address;
\* a request that returned an address ran them all
StepsInOrder(p) ==
    (req[p].op = "RequestAddress" /\ ~req[p].gateway /\ ~resp[p].panicked)
      => /\ Len(gh[p].steps) <= Len(StepOrder)
         /\ gh[p].steps = SubSeq(StepOrder, 1, Len(gh[p].steps))
         /\ (pc[p] = "idle" /\ resp[p].err # "nil")
               => /\ Len(gh[p].steps) = FailedAt(resp[p].err)
                  /\ resp[p].Address = EmptyStr
         /\ (pc[p] = "idle" /\ resp[p].err = "nil")
               => gh[p].steps = StepOrder

\* C15: the steps of a non-gateway request run in the order CandidateLoop,
\* ResolveNetwork, AttachHost, ResolveGateway, InstallRoute, each only after
\* every earlier one succeeded: the request that fails at a step runs no
\* later step and returns no address, and the routing table is changed only
\* by the install step of a request whose network the host was attached to
\* and whose gateway was resolved.
C15_StepOrder ==
    [][\A p \in Procs :
         /\ StepsInOrder(p)'
         /\ (Acts(p) /\ rtable' # rtable)
               => /\ pc[p] = "ra_add"
                  /\ gh[p].steps = SubSeq(StepOrder, 1, 4)
                  /\ fr[p].netID \in attached
                  /\ fr[p].gw # -1
                  /\ Returned(p)']_vars

\* one request failed at the install step after the four steps before it,
\* another one ran all five and returned its address
C15_Witness ==
    \E p, q \in Procs :
        /\ DoneRA(p) /\ resp[p].err = "RouteAddError"
        /\ gh[p].steps = StepOrder /\ resp[p].Address = EmptyStr
        /\ Returned(q) /\ ~req[q].gateway /\ gh[q].steps = StepOrder

\* C16: what a request's query finds depends on the routing table alone,
\* not on the candidates other requests hold: a request whose query for its
\* candidate succeeds sees exactly the routes of the table, so it leaves the
\* loop with a candidate another request already holds whenever no route for
\* it has been installed yet.
C16_CheckThenActRace ==
    [][\A p \in Procs :
         (pc[p] = "ra_query" /\ pc'[p] = "ra_loop")
            => fr'[p].routes = RouteListFiltered(rtable, fr[p].addr)]_vars

\* two requests for the same pool have left the loop with the same
\* candidate, neither has installed its route
C16_Witness ==
    \E p, q \in Procs :
        /\ p # q
        /\ PastLoop(p) /\ PastLoop(q)
        /\ ~req[p].gateway /\ ~req[q].gateway
        /\ req[p].PoolID = req[q].PoolID
        /\ fr[p].addr = fr[q].addr
        /\ fr[p].routes = {} /\ fr[q].routes = {}
        /\ ~RouteExists(rtable, fr[p].addr)

\* C18 as stated: every address a non-gateway request returns, and every
\* single-host route a request installs, lies inside the subnet of the
\* requested pool, the explicit address included.
C18_InsideSubnet ==
    /\ \A p \in Procs :
          (Returned(p) /\ ~req[p].gateway)
              => Contains(ParseCIDR(req[p].PoolID).subnet,
                          resp[p].Address[1])
    /\ \A a \in everRouted \ routed0 : Contains(ParseCIDR(P1).subnet, a)

\* C19: a request returns an address only by installing a single-host route
\* for an address that never had one, and no single-host route is ever
\* removed; so the address returned differs from every address returned
\* before, and of the requests that left the loop with one candidate at most
\* one returns it, the others failing at the install step.
C19_NoDuplicateAddress ==
    [][/\ everRouted \subseteq everRouted'
       /\ everRouted' = HostRouted(rtable') \cup routed0
       /\ \A p \in Procs :
            (pc[p] = "ra_add" /\ Acts(p) /\ Returned(p)')
               => /\ fr[p].addr.IP \notin everRouted
                  /\ resp'[p].Address[1] = fr[p].addr.IP
                  /\ resp'[p].Address[1] \in everRouted'
                  /\ \A q \in Procs \ {p} :
                        (Returned(q) /\ ~req[q].gateway)
                            => resp[q].Address[1] # resp'[p].Address[1]
                  /\ \A q \in Procs \ {p} :
                        (pc'[q] = "ra_add" /\ fr'[q].addr = fr[p].addr)
                            => RouteExists(rtable', fr'[q].addr)]_vars

\* one request has returned the candidate that another request, past its
\* loop, is about to install: that install can only fail
C19_Witness ==
    \E p, q \in Procs :
        /\ p # q
        /\ Returned(p) /\ ~req[p].gateway
        /\ pc[q] = "ra_add"
        /\ fr[q].addr.IP = resp[p].Address[1]
        /\ fr[q].routes = {}
        /\ RouteExists(rtable, fr[q].addr)

\* what each caller holds of the cache lock follows from the statement it
\* is at: the shared lock exactly around an index read, the exclusive lock
\* exactly inside cacheNetworkResource, nothing during a runtime call, the
\* nested lookup or after the return; a writer past its wait excludes readers
LockDiscipline ==
    /\ \A p \in Procs :
          /\ (p \in readers) = (pc[p] \in {"id_check", "pool_check"})
          /\ (writer = p)
                = (pc[p] \in {"cache_wait", "cache_id", "cache_pool"})
    /\ WriterHolds => readers = {}

\* C20: no lock is held across a runtime call, across the nested lookup or
\* after a return; the indexes are written only by the caller holding the
\* exclusive lock with no reader inside, and read only under the shared
\* lock; and every lookup that has been called returns.
C20_LockDiscipline ==
    /\ []LockDiscipline
    /\ [][(nrByID' # nrByID \/ nrByPool' # nrByPool)
             => /\ WriterHolds
                /\ readers = {}
                /\ Acts(writer)]_vars
    /\ \A p \in Procs : (pc[p] # "idle") ~> (pc[p] = "idle")

\* a caller inside the lookup nested in GetNetworkResourceByPool has called
\* Lock and waits for a reader to leave
C20_Witness ==
    /\ writer # 0
    /\ pc[writer] = "cache_wait"
    /\ fr[writer].caller = "pool"
    /\ readers # {}

====
